---- MODULE Spec2Model ----
(***************************************************************************)
(* Model of the home-automation command line (home_automation.py with its  *)
(* vendor modules home_automation_wyze.py and home_automation_vesync.py).  *)
(*                                                                         *)
(* Python strings are modelled as sequences of one-character strings, so   *)
(* that split('|'), lower(), isnumeric() and int() are computed and not    *)
(* assumed.  Python's None is the one-element sequence <<"None">>, which   *)
(* no string of characters equals.                                         *)
(***************************************************************************)
EXTENDS Integers, Sequences, FiniteSets, TLC

(***************************************************************************)
(* Bounds of the model (not program constants).                            *)
(***************************************************************************)
\* longest comma-separated device list given to main
MaxDevices == 2
\* most threads that run plug_action / bulb_action on one shared client
MaxCallers == 2
\* most handler calls made on one device in one run
MaxCalls == 2
\* longest string of the alphabet given as action value
FnStringLen == 2
\* the latest time of day, in seconds, of the circadian script's inputs
MaxTime == 5

None == <<"None">>

(***************************************************************************)
(* String helpers: str.lower, str.split, str.isnumeric, int().             *)
(***************************************************************************)
Digits == {"0", "1", "2", "3", "4", "5", "6", "7", "8", "9"}

DigitValue(c) ==
  CASE c = "0" -> 0 [] c = "1" -> 1 [] c = "2" -> 2 [] c = "3" -> 3
    [] c = "4" -> 4 [] c = "5" -> 5 [] c = "6" -> 6 [] c = "7" -> 7
    [] c = "8" -> 8 [] c = "9" -> 9

LowerChar(c) ==
  CASE c = "O" -> "o" [] c = "N" -> "n" [] c = "F" -> "f"
    [] c = "T" -> "t" [] c = "E" -> "e" [] c = "M" -> "m" [] c = "P" -> "p"
    [] OTHER -> c

\* str.lower()
Lower(s) == [i \in 1..Len(s) |-> LowerChar(s[i])]

\* characters for which str.isnumeric() holds and that are no decimal digits:
\* SUPERSCRIPT TWO stands for them (VULGAR FRACTION ONE HALF is another)
OtherNumerics == {"U+00B2"}

\* str.isnumeric() on the characters of the model's alphabet
IsNumeric(s) == Len(s) > 0 /\ \A i \in 1..Len(s) : s[i] \in Digits \cup OtherNumerics

\* int(s) raises ValueError, for a string s of the model's alphabet without
\* sign: some character is no decimal digit, or there is none
IntRaises(s) == Len(s) = 0 \/ \E i \in 1..Len(s) : s[i] \notin Digits

\* int(s) for a string of decimal digits
RECURSIVE ToInt(_)
ToInt(s) ==
  IF Len(s) = 0 THEN 0
  ELSE 10 * ToInt(SubSeq(s, 1, Len(s) - 1)) + DigitValue(s[Len(s)])

\* c in s
Contains(s, c) == \E i \in 1..Len(s) : s[i] = c

\* s.split(sep): the list of the pieces of s between the separators
RECURSIVE Split(_, _)
Split(s, sep) ==
  IF ~Contains(s, sep) THEN <<s>>
  ELSE LET k == CHOOSE i \in 1..Len(s) :
                  s[i] = sep /\ \A j \in 1..(i - 1) : s[j] # sep
       IN  <<SubSeq(s, 1, k - 1)>> \o Split(SubSeq(s, k + 1, Len(s)), sep)

(***************************************************************************)
(* Names of home_automation.py, lines 69-89.                               *)
(***************************************************************************)
API_WYZE == "wyze"
API_VESYNC == "vesync"

DEVICE_TYPE_PLUG == "plug"
DEVICE_TYPE_BULB == "bulb"
DEVICE_TYPE_FAN == "fan"

ACTION_ON == <<"o", "n">>
ACTION_OFF == <<"o", "f", "f">>
ACTION_BRIGHTNESS == <<"b", "r", "i", "g", "h", "t">>
ACTION_COLOR_TEMPERATURE == <<"t", "e", "m", "p">>
ACTION_FAN_SPEED == <<"s", "p", "e", "e", "d">>
\* home_automation_wyze.py lines 32, 35 (and home_automation_vesync.py 18, 21)
ACTION_GET == <<"g", "e", "t">>
ACTION_TOGGLE == <<"t", "o", "g", "g", "l", "e">>

ACTION_VALUE_TYPE_BRIGHTNESS == "brightness"
ACTION_VALUE_TYPE_COLOR_TEMPERATURE == "color-temperature"
ACTION_VALUE_TYPE_FAN_SPEED == "fan-speed"
\* the value None of the validations table: the action takes no value
NoValueType == "None"

WYZE_BULB_BRIGHTNESS_MIN == 1
WYZE_BULB_BRIGHTNESS_MAX == 100
WYZE_BULB_COLOR_TEMPERATURE_MIN == 2700
WYZE_BULB_COLOR_TEMPERATURE_MAX == 6500
VESYNC_FAN_SPEED_MIN == 1
VESYNC_FAN_SPEED_MAX == 3

(***************************************************************************)
(* convert_aliases, home_automation.py lines 136-159.                      *)
(***************************************************************************)
Bar == <<"|">>

action_aliases ==
  ( <<"n">> :> ACTION_ON ) @@
  ( <<"f">> :> ACTION_OFF ) @@
  ( <<"b", "r", "i", "g", "h", "t", "n", "e", "s", "s">> :> ACTION_BRIGHTNESS ) @@
  ( <<"b">> :> ACTION_BRIGHTNESS ) @@
  ( <<"t", "e", "m", "p", "e", "r", "a", "t", "u", "r", "e">> :> ACTION_COLOR_TEMPERATURE ) @@
  ( <<"t">> :> ACTION_COLOR_TEMPERATURE ) @@
  ( <<"w", "a", "r", "m">> :> ACTION_COLOR_TEMPERATURE \o Bar \o <<"3", "0", "0", "0">> ) @@
  ( <<"c", "o", "o", "l">> :> ACTION_COLOR_TEMPERATURE \o Bar \o <<"6", "5", "0", "0">> ) @@
  ( <<"1">> :> ACTION_FAN_SPEED \o Bar \o <<"1">> ) @@
  ( <<"2">> :> ACTION_FAN_SPEED \o Bar \o <<"2">> ) @@
  ( <<"3">> :> ACTION_FAN_SPEED \o Bar \o <<"3">> )

\* convert_aliases raises IndexError at line 157 if the split has one piece
convert_aliases_raises(action, action_value) ==
  LET a == IF action \in DOMAIN action_aliases THEN action_aliases[action] ELSE action
  IN  a # None /\ Contains(a, "|") /\ Len(Split(a, "|")) < 2

\* convert_aliases that takes the alias's value only when no value was given
convert_aliases_mut_keepvalue(action, action_value) ==
  LET a == IF action \in DOMAIN action_aliases THEN action_aliases[action] ELSE action
  IN  IF a # None /\ Contains(a, "|")
      THEN LET action_and_value == Split(a, "|")
           IN  <<action_and_value[1],
                 IF action_value = None THEN action_and_value[2] ELSE action_value>>
      ELSE <<a, action_value>>

\* returns <<action, action_value>>
convert_aliases(action, action_value) ==
  LET a == IF action \in DOMAIN action_aliases THEN action_aliases[action] ELSE action
  IN  IF a # None /\ Contains(a, "|")
      THEN LET action_and_value == Split(a, "|")
           IN  <<action_and_value[1], action_and_value[2]>>
      ELSE <<a, action_value>>

(***************************************************************************)
(* The device registry: the environment variables HA_DEVICE_<NAME>, each   *)
(* holding "<api>|<type>|<id>" (home_automation.py lines 20-26).  The      *)
(* registry follows the documented assumption that plugs and bulbs are     *)
(* Wyze devices and fans are VeSync devices.  "ghost" has no variable.     *)
(***************************************************************************)
RawNames == {"fan1", "FAN2", "plug1", "bulb1", "ghost"}

\* device_name.lower() / device_name.upper() on the names of the model
NameLower(n) == IF n = "FAN2" THEN "fan2" ELSE n

NameUpper(n) ==
  CASE n = "fan1" -> "FAN1" [] n = "fan2" -> "FAN2" [] n = "plug1" -> "PLUG1"
    [] n = "bulb1" -> "BULB1" [] n = "ghost" -> "GHOST" [] OTHER -> n

environ ==
  ( "HA_DEVICE_FAN1"  :> <<API_VESYNC, DEVICE_TYPE_FAN, "F1">> ) @@
  ( "HA_DEVICE_FAN2"  :> <<API_VESYNC, DEVICE_TYPE_FAN, "F2">> ) @@
  ( "HA_DEVICE_PLUG1" :> <<API_WYZE, DEVICE_TYPE_PLUG, "P1">> ) @@
  ( "HA_DEVICE_BULB1" :> <<API_WYZE, DEVICE_TYPE_BULB, "B1">> )

\* f"HA_DEVICE_{device_name.upper()}"
DeviceEnvVariable(device_name) ==
  CASE NameUpper(device_name) = "FAN1" -> "HA_DEVICE_FAN1"
    [] NameUpper(device_name) = "FAN2" -> "HA_DEVICE_FAN2"
    [] NameUpper(device_name) = "PLUG1" -> "HA_DEVICE_PLUG1"
    [] NameUpper(device_name) = "BULB1" -> "HA_DEVICE_BULB1"
    [] OTHER -> "HA_DEVICE_GHOST"

(***************************************************************************)
(* parse_parameters, home_automation.py lines 182-211.                     *)
(* params is sys.argv: <<script, device-names, action, action-value>>, of  *)
(* length 1 to 4; params[2] is held as the list of its comma-separated     *)
(* names.  An optional device list is <<>> for None and <<list>> for a     *)
(* list.  The result is <<devices, action, action_value>>.                 *)
(***************************************************************************)
NoDevices == <<>>

\* the for loop of lines 191-204 from the i-th name on; devices is the list
\* built so far
\* the same loop that skips an undefined name instead of returning None
RECURSIVE ResolveDevices_mut_skip(_, _, _)
ResolveDevices_mut_skip(names, i, devices) ==
  IF i > Len(names) THEN <<devices>>
  ELSE LET device_name == names[i]
           device_env_variable == DeviceEnvVariable(device_name)
       IN  IF device_env_variable \in DOMAIN environ
           THEN LET device_parts == environ[device_env_variable]
                IN  ResolveDevices_mut_skip(names, i + 1,
                      Append(devices, [device_name |-> device_name,
                                       device_api  |-> device_parts[1],
                                       device_type |-> device_parts[2],
                                       device_id   |-> device_parts[3]]))
           ELSE ResolveDevices_mut_skip(names, i + 1, devices)

RECURSIVE ResolveDevices(_, _, _)
ResolveDevices(names, i, devices) ==
  IF i > Len(names) THEN <<devices>>
  ELSE LET device_name == names[i]
           device_env_variable == DeviceEnvVariable(device_name)
       IN  IF device_env_variable \in DOMAIN environ
           THEN LET device_parts == environ[device_env_variable]
                IN  ResolveDevices(names, i + 1,
                      Append(devices, [device_name |-> device_name,
                                       device_api  |-> device_parts[1],
                                       device_type |-> device_parts[2],
                                       device_id   |-> device_parts[3]]))
           ELSE NoDevices

parse_parameters(params) ==
  LET has_names == Len(params) > 1
      action0 == IF Len(params) > 2 THEN Lower(params[3]) ELSE None
      action_value0 == IF Len(params) > 3 THEN params[4] ELSE None
      converted == convert_aliases(action0, action_value0)
  IN  IF has_names
      THEN LET device_names == [i \in 1..Len(params[2]) |-> NameLower(params[2][i])]
               devices == ResolveDevices(device_names, 1, <<>>)
           IN  IF devices = NoDevices
               THEN <<NoDevices, None, None>>
               ELSE <<devices, converted[1], converted[2]>>
      ELSE <<NoDevices, None, None>>

(***************************************************************************)
(* Validation: home_automation_wyze.py lines 176-188,                      *)
(* home_automation_vesync.py lines 87-99, home_automation.py lines 224-301.*)
(***************************************************************************)
\* A validator is a pair of operators: <name>_raises tells whether the call
\* ends with the ValueError of int(property_value), and <name> is what the
\* call returns when it returns.
validate_bulb_action_value_raises(property_value) ==
  /\ property_value # None
  /\ property_value \notin {<<"+">>, <<"-">>}
  /\ IsNumeric(property_value)
  /\ IntRaises(property_value)

validate_bulb_action_value(property_value, min_value, max_value) ==
  IF property_value = None THEN FALSE
  ELSE IF property_value \in {<<"+">>, <<"-">>} THEN TRUE
  ELSE IsNumeric(property_value)
         /\ ~IntRaises(property_value)
         /\ min_value <= ToInt(property_value)
         /\ ToInt(property_value) <= max_value

validate_fan_action_value_raises(property_value) ==
  /\ property_value # None
  /\ IsNumeric(property_value)
  /\ IntRaises(property_value)

validate_fan_action_value(property_value, min_value, max_value) ==
  IF property_value = None THEN FALSE
  ELSE IF IsNumeric(property_value)
            /\ ~IntRaises(property_value)
            /\ min_value <= ToInt(property_value)
            /\ ToInt(property_value) <= max_value THEN TRUE
  ELSE property_value = <<"c", "y", "c", "l", "e">>

validate_action_value_raises(action_value_type, action_value) ==
  CASE action_value_type = ACTION_VALUE_TYPE_BRIGHTNESS ->
         validate_bulb_action_value_raises(action_value)
    [] action_value_type = ACTION_VALUE_TYPE_COLOR_TEMPERATURE ->
         validate_bulb_action_value_raises(action_value)
    [] action_value_type = ACTION_VALUE_TYPE_FAN_SPEED ->
         validate_fan_action_value_raises(action_value)
    [] OTHER -> FALSE

validate_action_value(action_value_type, action_value) ==
  CASE action_value_type = NoValueType -> TRUE
    [] action_value_type = ACTION_VALUE_TYPE_BRIGHTNESS ->
         validate_bulb_action_value(action_value,
           WYZE_BULB_BRIGHTNESS_MIN, WYZE_BULB_BRIGHTNESS_MAX)
    [] action_value_type = ACTION_VALUE_TYPE_COLOR_TEMPERATURE ->
         validate_bulb_action_value(action_value,
           WYZE_BULB_COLOR_TEMPERATURE_MIN, WYZE_BULB_COLOR_TEMPERATURE_MAX)
    [] action_value_type = ACTION_VALUE_TYPE_FAN_SPEED ->
         validate_fan_action_value(action_value,
           VESYNC_FAN_SPEED_MIN, VESYNC_FAN_SPEED_MAX)
    [] OTHER -> FALSE

\* the validations table of lines 254-264: device type -> action -> value type
validations ==
  ( DEVICE_TYPE_PLUG :> ( ( ACTION_ON :> NoValueType ) @@
                          ( ACTION_OFF :> NoValueType ) ) ) @@
  ( DEVICE_TYPE_BULB :> ( ( ACTION_ON :> NoValueType ) @@
                          ( ACTION_OFF :> NoValueType ) @@
                          ( ACTION_BRIGHTNESS :> ACTION_VALUE_TYPE_BRIGHTNESS ) @@
                          ( ACTION_COLOR_TEMPERATURE :> ACTION_VALUE_TYPE_COLOR_TEMPERATURE ) ) ) @@
  ( DEVICE_TYPE_FAN  :> ( ( ACTION_ON :> NoValueType ) @@
                          ( ACTION_OFF :> NoValueType ) @@
                          ( ACTION_FAN_SPEED :> ACTION_VALUE_TYPE_FAN_SPEED ) ) )

validate_parameters_for_device_raises(device_type, action, action_value) ==
  /\ device_type \in DOMAIN validations
  /\ action \in DOMAIN validations[device_type]
  /\ validate_action_value_raises(validations[device_type][action], action_value)

\* the calls of validate_action_value made by validate_parameters_for_device
\* (line 270), each as <<action_value_type, action_value>>
validate_parameters_for_device_calls(device_type, action, action_value) ==
  IF device_type \in DOMAIN validations /\ action \in DOMAIN validations[device_type]
  THEN << <<validations[device_type][action], action_value>> >>
  ELSE <<>>

\* the lookup written validations[device_type].get(action): an action that
\* is not in the table gets the value type None
validate_parameters_for_device_mut_get(device_name, device_type, action, action_value) ==
  IF device_type \in DOMAIN validations
  THEN validate_action_value(
         IF action \in DOMAIN validations[device_type]
         THEN validations[device_type][action] ELSE NoValueType, action_value)
  ELSE FALSE

validate_parameters_for_device(device_name, device_type, action, action_value) ==
  IF device_type \in DOMAIN validations
  THEN IF action \in DOMAIN validations[device_type]
       THEN validate_action_value(validations[device_type][action], action_value)
       ELSE FALSE
  ELSE FALSE

\* the for loop of lines 297-299 from the i-th device on
RECURSIVE ValidateLoop(_, _, _, _, _)
ValidateLoop(list, i, is_valid, action, action_value) ==
  IF i > Len(list) THEN is_valid
  ELSE LET v == validate_parameters_for_device(
                  list[i].device_name, list[i].device_type, action, action_value)
       IN  IF ~v THEN v
           ELSE ValidateLoop(list, i + 1, v, action, action_value)

\* the same loop without "if not is_valid: break": the last device decides
RECURSIVE ValidateLoop_LastWins(_, _, _, _, _)
ValidateLoop_LastWins(list, i, is_valid, action, action_value) ==
  IF i > Len(list) THEN is_valid
  ELSE ValidateLoop_LastWins(list, i + 1,
         validate_parameters_for_device(
           list[i].device_name, list[i].device_type, action, action_value),
         action, action_value)

validate_parameters_mut_nobreak(devices, action, action_value) ==
  IF devices # NoDevices
  THEN ValidateLoop_LastWins(devices[1], 1, FALSE, action, action_value)
  ELSE FALSE

validate_parameters(devices, action, action_value) ==
  IF devices # NoDevices
  THEN ValidateLoop(devices[1], 1, FALSE, action, action_value)
  ELSE FALSE

(***************************************************************************)
(* The handlers of one device: bulb_action_brightness and                  *)
(* bulb_action_color_temperature (home_automation_wyze.py lines 207-230)   *)
(* and fan_action_speed (home_automation_vesync.py lines 117-125), each    *)
(* called with the device object its caller fetched and with an action     *)
(* value that passed validation.  A handler is an operator that gives the  *)
(* list of the requests it sends to the vendor, in order.                  *)
(*                                                                         *)
(* Python floats are held in tenths: the two intervals are 19.8 and 760.0. *)
(***************************************************************************)
Tenths == 10

Min(a, b) == IF a <= b THEN a ELSE b
Max(a, b) == IF a >= b THEN a ELSE b

\* int(x) of a float x >= 0 held in tenths: the fraction is cut off
IntOf(x) == x \div Tenths

\* home_automation_wyze.py lines 41, 44, 45 (the intervals in tenths)
WYZE_BULB_BRIGHTNESS_INTERVAL ==
  ((WYZE_BULB_BRIGHTNESS_MAX - WYZE_BULB_BRIGHTNESS_MIN) * Tenths) \div 5
WYZE_BULB_COLOR_TEMPERATURE_RANGE ==
  WYZE_BULB_COLOR_TEMPERATURE_MAX - WYZE_BULB_COLOR_TEMPERATURE_MIN
WYZE_BULB_COLOR_TEMPERATURE_INTERVAL ==
  (WYZE_BULB_COLOR_TEMPERATURE_RANGE * Tenths) \div 5

\* a request sent to the vendor
Request(cmd, value) == [cmd |-> cmd, value |-> value]

\* the handler that does not turn a white bulb on
bulb_action_brightness_mut_noturnon(bulb, action_value) ==
  LET plus  == Min(bulb.brightness * Tenths + WYZE_BULB_BRIGHTNESS_INTERVAL,
                   WYZE_BULB_BRIGHTNESS_MAX * Tenths)
      minus == Max(bulb.brightness * Tenths - WYZE_BULB_BRIGHTNESS_INTERVAL,
                   WYZE_BULB_BRIGHTNESS_MIN * Tenths)
      new_brightness == IF action_value = <<"+">> THEN IntOf(plus)
                        ELSE IF action_value = <<"-">> THEN IntOf(minus)
                        ELSE ToInt(action_value)
  IN  <<Request("set_brightness", new_brightness)>>

\* the handler without the min/max of lines 214-215
bulb_action_brightness_mut_noclamp(bulb, action_value) ==
  LET plus  == bulb.brightness * Tenths + WYZE_BULB_BRIGHTNESS_INTERVAL
      minus == bulb.brightness * Tenths - WYZE_BULB_BRIGHTNESS_INTERVAL
      new_brightness == IF action_value = <<"+">> THEN IntOf(plus)
                        ELSE IF action_value = <<"-">> THEN IntOf(minus)
                        ELSE ToInt(action_value)
  IN  (IF bulb.type = "Light" /\ ~bulb.is_on
       THEN <<Request("turn_on", 0)>> ELSE <<>>)
      \o <<Request("set_brightness", new_brightness)>>

bulb_action_brightness(bulb, action_value) ==
  LET plus  == Min(bulb.brightness * Tenths + WYZE_BULB_BRIGHTNESS_INTERVAL,
                   WYZE_BULB_BRIGHTNESS_MAX * Tenths)
      minus == Max(bulb.brightness * Tenths - WYZE_BULB_BRIGHTNESS_INTERVAL,
                   WYZE_BULB_BRIGHTNESS_MIN * Tenths)
      new_brightness == IF action_value = <<"+">> THEN IntOf(plus)
                        ELSE IF action_value = <<"-">> THEN IntOf(minus)
                        ELSE ToInt(action_value)
  IN  (IF bulb.type = "Light" /\ ~bulb.is_on
       THEN <<Request("turn_on", 0)>> ELSE <<>>)
      \o <<Request("set_brightness", new_brightness)>>

\* the handler without the test of line 229
bulb_action_color_temperature_mut_always(bulb, action_value) ==
  LET plus  == Min(bulb.color_temp * Tenths + WYZE_BULB_COLOR_TEMPERATURE_INTERVAL,
                   WYZE_BULB_COLOR_TEMPERATURE_MAX * Tenths)
      minus == Max(bulb.color_temp * Tenths - WYZE_BULB_COLOR_TEMPERATURE_INTERVAL,
                   WYZE_BULB_COLOR_TEMPERATURE_MIN * Tenths)
      new_color_temperature == IF action_value = <<"+">> THEN IntOf(plus)
                               ELSE IF action_value = <<"-">> THEN IntOf(minus)
                               ELSE ToInt(action_value)
  IN  <<Request("set_color_temp", new_color_temperature)>>

bulb_action_color_temperature(bulb, action_value) ==
  LET plus  == Min(bulb.color_temp * Tenths + WYZE_BULB_COLOR_TEMPERATURE_INTERVAL,
                   WYZE_BULB_COLOR_TEMPERATURE_MAX * Tenths)
      minus == Max(bulb.color_temp * Tenths - WYZE_BULB_COLOR_TEMPERATURE_INTERVAL,
                   WYZE_BULB_COLOR_TEMPERATURE_MIN * Tenths)
      new_color_temperature == IF action_value = <<"+">> THEN IntOf(plus)
                               ELSE IF action_value = <<"-">> THEN IntOf(minus)
                               ELSE ToInt(action_value)
  IN  IF bulb.type = "Light" \/ (bulb.type = "MeshLight" /\ bulb.is_on)
      THEN <<Request("set_color_temp", new_color_temperature)>>
      ELSE <<>>

\* the handler that cycles 3 -> 4
fan_action_speed_mut_nowrap(fan, action_value) ==
  IF action_value = <<"c", "y", "c", "l", "e">>
  THEN <<Request("get_details", 0), Request("change_fan_speed", fan.fan_level + 1)>>
  ELSE <<Request("change_fan_speed", ToInt(action_value))>>

\* fan is the fan object as get_details() fills it
fan_action_speed(fan, action_value) ==
  IF action_value = <<"c", "y", "c", "l", "e">>
  THEN LET fan_speed == IF fan.fan_level = 3 THEN 1 ELSE fan.fan_level + 1
       IN  <<Request("get_details", 0), Request("change_fan_speed", fan_speed)>>
  ELSE <<Request("change_fan_speed", ToInt(action_value))>>

\* fan_action finds the fan in the client's stored list (line 143, no
\* request); the handler reads the fan's state from the vendor, with
\* get_details(), for toggle, get and the speed 'cycle' only (lines 105-125)
fan_action_fetches(fan_action_name, fan_action_value) ==
  \/ fan_action_name \in {ACTION_TOGGLE, ACTION_GET}
  \/ fan_action_name = ACTION_FAN_SPEED /\ fan_action_value = <<"c", "y", "c", "l", "e">>

\* what a request does to the device.  set_color_temp turns a MeshLight on
\* (comment of lines 226-228); whether set_brightness turns a MeshLight on is
\* the vendor's matter: on is the state after it, if it was not on before.
VendorApply(d, r, on) ==
  CASE r.cmd = "turn_on"          -> [d EXCEPT !.is_on = TRUE]
    [] r.cmd = "set_brightness"   ->
         [d EXCEPT !.brightness = r.value,
                   !.is_on = IF d.type = "MeshLight" THEN (d.is_on \/ on) ELSE d.is_on]
    [] r.cmd = "set_color_temp"   ->
         [d EXCEPT !.color_temp = r.value,
                   !.is_on = IF d.type = "MeshLight" THEN TRUE ELSE d.is_on]
    [] r.cmd = "change_fan_speed" -> [d EXCEPT !.fan_level = r.value]
    [] r.cmd = "get_details"      -> d

RECURSIVE VendorApplyAll(_, _, _)
VendorApplyAll(d, rs, on) ==
  IF rs = <<>> THEN d ELSE VendorApplyAll(VendorApply(d, Head(rs), on), Tail(rs), on)

BulbTypes == {"Light", "MeshLight"}

\* the bulbs: every brightness with one color temperature, and every color
\* temperature with one brightness
Bulbs ==
  { [kind |-> DEVICE_TYPE_BULB, type |-> t, is_on |-> o, brightness |-> b, color_temp |-> 4000] :
      t \in BulbTypes, o \in BOOLEAN,
      b \in WYZE_BULB_BRIGHTNESS_MIN..WYZE_BULB_BRIGHTNESS_MAX }
  \cup
  { [kind |-> DEVICE_TYPE_BULB, type |-> t, is_on |-> o, brightness |-> 50, color_temp |-> c] :
      t \in BulbTypes, o \in BOOLEAN,
      c \in WYZE_BULB_COLOR_TEMPERATURE_MIN..WYZE_BULB_COLOR_TEMPERATURE_MAX }

Fans ==
  { [kind |-> DEVICE_TYPE_FAN, device_status |-> st, fan_level |-> l] :
      st \in {"on", "off"}, l \in VESYNC_FAN_SPEED_MIN..VESYNC_FAN_SPEED_MAX }

\* validated action values
BrightnessValues == { <<"+">>, <<"-">>, <<"5", "0">> }
ColorTemperatureValues == { <<"+">>, <<"-">>, <<"3", "0", "0", "0">> }
FanSpeedValues == { <<"c", "y", "c", "l", "e">>, <<"1">>, <<"2">>, <<"3">> }

(***************************************************************************)
(* The process.  It is entered either through main(params)                 *)
(* (home_automation.py line 353), or, since main cannot obtain a Wyze      *)
(* client (see get_client), by a caller that took a Wyze client from       *)
(* get_wyze_client(script_path) (home_automation_wyze.py lines 66-78, as   *)
(* dump_wyze_devices does) and runs plug_action / bulb_action with it, one *)
(* thread per device.                                                      *)
(*                                                                         *)
(* Client handles are numbers; 0 is None.  Handle 1 is the handle a        *)
(* pickle file holds when the process starts, FreshVesync the handle a     *)
(* VeSync login of this process returns, and FreshWyze(w, a) the handle    *)
(* the Wyze login made by thread w in its a-th attempt returns.            *)
(***************************************************************************)
VARIABLES
  entry,            \* "main" or "direct"
  params,           \* sys.argv of main
  main_pc,          \* "start", "launch", "join", "returned", "raised"; "none" if main is not run
  devices,          \* main's devices (optional list)
  action,           \* the action after convert_aliases
  action_value,     \* the action value after convert_aliases
  is_valid,         \* what validate_parameters returned to main
  help_displayed,   \* display_help() was called
  idx,              \* position of main's for loop (launch, then join)
  clients,          \* home_automation.clients: api -> handle
  vesync_pickle,    \* vesync_client.pickle: 0 if the file does not exist
  wyze_pickle,      \* wyze_client.pickle: 0 if the file does not exist
  get_client_calls, \* number of calls of get_client
  creations,        \* api -> number of create_*_client calls that returned a handle
  logins,           \* api -> number of logins sent to the vendor
  workers,          \* the threads, in the order they were started
  fn_call,          \* a function called on its own: its name and arguments
  fn_ret,           \* <<>> until that function has ended, then <<its outcome>>
  vendor_device,    \* the device as the vendor holds it (one handler thread)
  handler_calls     \* the handler calls made on that device, with what they sent

\* the variables of a run of main and of its threads
mainVars == <<entry, params, main_pc, devices, action, action_value, is_valid,
              help_displayed, idx, clients, vesync_pickle, wyze_pickle,
              get_client_calls, creations, logins, workers>>

\* the variables of a function called on its own, and of one device's handlers
fnVars == <<fn_call, fn_ret>>
handlerVars == <<vendor_device, handler_calls>>

vars == <<mainVars, fnVars, handlerVars>>

NoCall == <<>>
NoDevice == <<>>

\* stop_after_attempt(3), home_automation_wyze.py lines 143 and 250
StopAfterAttempt == 3

PickledHandle == 1
FreshVesync == 2
FreshWyze(w, a) == 10 * w + a

Apis == {API_WYZE, API_VESYNC}

\* command lines given to main, typed in ASCII
ActionTokens ==
  { ACTION_ON, <<"O", "N">>, ACTION_OFF, ACTION_TOGGLE, ACTION_GET,
    ACTION_BRIGHTNESS, ACTION_COLOR_TEMPERATURE, ACTION_FAN_SPEED,
    <<"n">>, <<"w", "a", "r", "m">>, <<"2">>, <<"x", "|", "y">> }

ActionValues ==
  { <<"+">>, <<"0">>, <<"3">>, <<"5", "0">>, <<"3", "0", "0", "0">>,
    <<"c", "y", "c", "l", "e">> }

NameLists == UNION { [1..n -> RawNames] : n \in 1..MaxDevices }

ParamsSet ==
  { <<"home_automation.py">> }
  \cup { <<"home_automation.py", n>> : n \in NameLists }
  \cup { <<"home_automation.py", n, a>> : n \in NameLists, a \in ActionTokens }
  \cup { <<"home_automation.py", n, a, v>> :
           n \in NameLists, a \in ActionTokens, v \in ActionValues }

\* calls of plug_action / bulb_action made by the direct caller
DirectCalls ==
  { <<ACTION_ON, None>>, <<ACTION_BRIGHTNESS, <<"+">>>> }

DirectKinds == {DEVICE_TYPE_PLUG, DEVICE_TYPE_BULB}

\* an attempt that was made: the handle it used, how it ended, the handle
\* through which it fetched the device's state before its commands (0: it
\* fetched none), and the attempt in which the state its handler used was
\* fetched (0: the handler used none)
Made(client, result, fetched, state_of) ==
  [client |-> client, result |-> result, fetched |-> fetched, state_of |-> state_of]

\* a thread as threading.Thread(target=..., args=(client, id, action, value))
\* starts it: the target's first attempt is about to run
NewWorker(device_type, device_id, client) ==
  [ kind    |-> device_type,
    id      |-> device_id,
    client  |-> client,       \* the target's local variable client
    pc      |-> "run",        \* "run", "recreate", "done", "failed"
    attempt |-> 1,            \* the attempt that runs next, or ran last
    hist    |-> <<>> ]        \* per attempt made: see Made

InitMain ==
  /\ entry = "main"
  /\ params \in ParamsSet
  /\ main_pc = "start"
  /\ vesync_pickle \in {0, PickledHandle}
  /\ wyze_pickle \in {0, PickledHandle}
  /\ workers = <<>>
  /\ action = None
  /\ action_value = None

InitDirect ==
  /\ entry = "direct"
  /\ params = <<>>
  /\ main_pc = "none"
  /\ vesync_pickle = 0
  \* get_wyze_client loaded the file, or created the client and wrote it
  /\ wyze_pickle = PickledHandle
  /\ \E n \in 1..MaxCallers : \E kinds \in [1..n -> DirectKinds] :
       \E call \in DirectCalls :
         /\ \A i \in 1..n :
              validate_parameters_for_device("d", kinds[i], call[1], call[2])
         /\ action = call[1]
         /\ action_value = call[2]
         /\ workers = [i \in 1..n |-> NewWorker(kinds[i], i, PickledHandle)]

Init ==
  /\ InitMain \/ InitDirect
  /\ devices = NoDevices
  /\ is_valid = FALSE
  /\ help_displayed = FALSE
  /\ idx = 0
  /\ clients = [a \in Apis |-> 0]
  /\ get_client_calls = 0
  /\ creations = [a \in Apis |-> 0]
  /\ logins = [a \in Apis |-> 0]
  /\ fn_call = NoCall
  /\ fn_ret = <<>>
  /\ vendor_device = NoDevice
  /\ handler_calls = <<>>

(***************************************************************************)
(* Client creation and the per-process cache.  A login that is sent is     *)
(* taken to return a client: the vendors' login mechanics are outside the  *)
(* program.                                                                *)
(***************************************************************************)
\* create_vesync_client(script_path), home_automation_vesync.py lines 36-74:
\* load the pickled client if the file exists, else log in and write the
\* file.  The result is [handle, pickle, logins].
create_vesync_client ==
  IF vesync_pickle # 0
  THEN [handle |-> vesync_pickle, pickle |-> vesync_pickle, logins |-> 0]
  ELSE [handle |-> FreshVesync, pickle |-> FreshVesync, logins |-> 1]

\* get_client without the "clients[api] == None" test and without the
\* assignment to clients[api]: a client is created on every call
get_client_mut_nomemo(api) ==
  IF api = API_WYZE
  THEN [raised |-> TRUE, handle |-> 0, clients |-> clients,
        pickle |-> vesync_pickle, created |-> 0, logins |-> 0]
  ELSE LET r == create_vesync_client
       IN  [raised |-> FALSE, handle |-> r.handle, clients |-> clients,
            pickle |-> r.pickle, created |-> 1, logins |-> r.logins]

\* get_client(api), home_automation.py lines 113-121.  The result is
\* [raised, handle, clients, pickle, created, logins].
\* For 'wyze' line 117 calls home_automation_wyze.create_wyze_client(SCRIPT_PATH),
\* which is defined without parameters (home_automation_wyze.py line 50):
\* the call raises TypeError before the function body runs.
get_client(api) ==
  IF clients[api] # 0
  THEN [raised |-> FALSE, handle |-> clients[api], clients |-> clients,
        pickle |-> vesync_pickle, created |-> 0, logins |-> 0]
  ELSE IF api = API_WYZE
  THEN [raised |-> TRUE, handle |-> 0, clients |-> clients,
        pickle |-> vesync_pickle, created |-> 0, logins |-> 0]
  ELSE LET r == create_vesync_client
       IN  [raised |-> FALSE, handle |-> r.handle,
            clients |-> [clients EXCEPT ![api] = r.handle],
            pickle |-> r.pickle, created |-> 1, logins |-> r.logins]

(***************************************************************************)
(* main, home_automation.py lines 353-376.                                 *)
(***************************************************************************)
\* lines 354-357: parse, validate, and display the help if invalid
MainValidate ==
  /\ main_pc = "start"
  /\ LET parsed == parse_parameters(params)
         ok == validate_parameters(parsed[1], parsed[2], parsed[3])
     IN  /\ devices' = parsed[1]
         /\ action' = parsed[2]
         /\ action_value' = parsed[3]
         /\ is_valid' = ok
         /\ help_displayed' = ~ok
         /\ main_pc' = IF ok THEN "launch" ELSE "returned"
         /\ idx' = IF ok THEN 1 ELSE 0
  /\ UNCHANGED <<entry, params, clients, vesync_pickle, wyze_pickle,
                 get_client_calls, creations, logins, workers>>
  /\ UNCHANGED <<fnVars, handlerVars>>

\* the loop with the exception of get_client caught per device: the device
\* is skipped and the loop goes on
MainLaunch_mut_skip ==
  /\ main_pc = "launch"
  /\ LET device == devices[1][idx]
         r == get_client(device.device_api)
     IN    /\ get_client_calls' = get_client_calls + 1
           /\ clients' = r.clients
           /\ vesync_pickle' = r.pickle
           /\ creations' = [creations EXCEPT ![device.device_api] = @ + r.created]
           /\ logins' = [logins EXCEPT ![device.device_api] = @ + r.logins]
           /\ workers' = IF r.raised THEN workers
                         ELSE Append(workers,
                                NewWorker(device.device_type, device.device_id, r.handle))
           /\ main_pc' = IF idx = Len(devices[1])
                         THEN (IF workers' = <<>> THEN "returned" ELSE "join")
                         ELSE "launch"
           /\ idx' = IF idx = Len(devices[1]) THEN 1 ELSE idx + 1
  /\ UNCHANGED <<entry, params, devices, action, action_value, is_valid,
                 help_displayed, wyze_pickle>>
  /\ UNCHANGED <<fnVars, handlerVars>>

\* lines 367-372, one pass of the loop: get the client, create and start the
\* thread.  An exception of get_client leaves main (and the threads started
\* before are neither joined nor stopped).
MainLaunch ==
  /\ main_pc = "launch"
  /\ LET device == devices[1][idx]
         r == get_client(device.device_api)
     IN    /\ get_client_calls' = get_client_calls + 1
           /\ clients' = r.clients
           /\ vesync_pickle' = r.pickle
           /\ creations' = [creations EXCEPT ![device.device_api] = @ + r.created]
           /\ logins' = [logins EXCEPT ![device.device_api] = @ + r.logins]
           /\ IF r.raised
              THEN /\ main_pc' = "raised"
                   /\ UNCHANGED <<workers, idx>>
              ELSE /\ workers' = Append(workers,
                        NewWorker(device.device_type, device.device_id, r.handle))
                   /\ main_pc' = IF idx = Len(devices[1]) THEN "join" ELSE "launch"
                   /\ idx' = IF idx = Len(devices[1]) THEN 1 ELSE idx + 1
  /\ UNCHANGED <<entry, params, devices, action, action_value, is_valid,
                 help_displayed, wyze_pickle>>
  /\ UNCHANGED <<fnVars, handlerVars>>

Finished(w) == w.pc \in {"done", "failed"}

\* the join loop that does not wait for the thread to end
MainJoin_mut_nowait ==
  /\ main_pc = "join"
  /\ main_pc' = IF idx = Len(workers) THEN "returned" ELSE "join"
  /\ idx' = IF idx = Len(workers) THEN idx ELSE idx + 1
  /\ UNCHANGED <<entry, params, devices, action, action_value, is_valid,
                 help_displayed, clients, vesync_pickle, wyze_pickle,
                 get_client_calls, creations, logins, workers>>
  /\ UNCHANGED <<fnVars, handlerVars>>

\* a join that returns only for a thread that ended without an exception
MainJoin_mut_onlydone ==
  /\ main_pc = "join"
  /\ workers[idx].pc = "done"
  /\ main_pc' = IF idx = Len(workers) THEN "returned" ELSE "join"
  /\ idx' = IF idx = Len(workers) THEN idx ELSE idx + 1
  /\ UNCHANGED <<entry, params, devices, action, action_value, is_valid,
                 help_displayed, clients, vesync_pickle, wyze_pickle,
                 get_client_calls, creations, logins, workers>>
  /\ UNCHANGED <<fnVars, handlerVars>>

\* lines 375-376, one pass of the loop: thread.join() returns once the
\* thread has ended, however it ended
MainJoin ==
  /\ main_pc = "join"
  /\ Finished(workers[idx])
  /\ main_pc' = IF idx = Len(workers) THEN "returned" ELSE "join"
  /\ idx' = IF idx = Len(workers) THEN idx ELSE idx + 1
  /\ UNCHANGED <<entry, params, devices, action, action_value, is_valid,
                 help_displayed, clients, vesync_pickle, wyze_pickle,
                 get_client_calls, creations, logins, workers>>
  /\ UNCHANGED <<fnVars, handlerVars>>

(***************************************************************************)
(* The threads.                                                            *)
(***************************************************************************)
\* what the vendor answers to the calls of one attempt of plug_action or
\* bulb_action (info, then the handler's commands):
\*   "ok"       every call returned
\*   "expired"  a call raised WyzeApiError 'The access token has expired'
\*   "apierr"   a call raised WyzeApiError with another message
\*   "exc"      something raised an exception that is no WyzeApiError
AttemptResults == {"ok", "expired", "apierr", "exc"}

\* tenacity's Retrying(stop=stop_after_attempt(3)) after an attempt that
\* raised: retry on any exception until the attempts are used up, then raise
\* RetryError out of the target (the thread ends with the exception)
AfterRaise_mut_offbyone(w) ==
  IF w.attempt <= StopAfterAttempt
  THEN [w EXCEPT !.pc = "run", !.attempt = @ + 1]
  ELSE [w EXCEPT !.pc = "failed"]

AfterRaise(w) ==
  IF w.attempt < StopAfterAttempt
  THEN [w EXCEPT !.pc = "run", !.attempt = @ + 1]
  ELSE [w EXCEPT !.pc = "failed"]

\* the except clause with the raise outside the if: every WyzeApiError is
\* re-raised
AfterAttempt_mut_reraise(w, result) ==
  LET h == [w EXCEPT !.hist = Append(@, Made(w.client, result, w.client, w.attempt))]
  IN  CASE result = "ok"      -> [h EXCEPT !.pc = "done"]
        [] result = "apierr"  -> AfterRaise(h)
        [] result = "expired" -> [h EXCEPT !.pc = "recreate"]
        [] result = "exc"     -> AfterRaise(h)

\* the attempt with the device fetched once, before the retry loop
AfterAttempt_mut_stale(w, result) ==
  LET h == [w EXCEPT !.hist = Append(@, Made(w.client, result,
                                 IF w.attempt = 1 THEN w.client ELSE 0, 1))]
  IN  CASE result = "ok"      -> [h EXCEPT !.pc = "done"]
        [] result = "apierr"  -> [h EXCEPT !.pc = "done"]
        [] result = "expired" -> [h EXCEPT !.pc = "recreate"]
        [] result = "exc"     -> AfterRaise(h)

\* one pass of "with attempt: try: ... except WyzeApiError as e: ...",
\* home_automation_wyze.py lines 144-160 and 251-271, up to the call of
\* create_wyze_client: the raise of lines 160 and 271 is inside the if, so a
\* WyzeApiError with another message ends the attempt without an exception.
\* The attempt begins with client.plugs.info / client.bulbs.info (lines 147,
\* 254) and hands the object it got to the handler (lines 155, 265).
AfterAttempt(w, result) ==
  LET h == [w EXCEPT !.hist = Append(@, Made(w.client, result, w.client, w.attempt))]
  IN  CASE result = "ok"      -> [h EXCEPT !.pc = "done"]
        [] result = "apierr"  -> [h EXCEPT !.pc = "done"]
        [] result = "expired" -> [h EXCEPT !.pc = "recreate"]
        [] result = "exc"     -> AfterRaise(h)

\* plug_action / bulb_action: one attempt
Attempt(i) ==
  /\ i \in 1..Len(workers)
  /\ workers[i].kind \in {DEVICE_TYPE_PLUG, DEVICE_TYPE_BULB}
  /\ workers[i].pc = "run"
  /\ \E result \in AttemptResults :
       workers' = [workers EXCEPT ![i] = AfterAttempt(workers[i], result)]
  /\ UNCHANGED <<entry, params, main_pc, devices, action, action_value,
                 is_valid, help_displayed, idx, clients, vesync_pickle,
                 wyze_pickle, get_client_calls, creations, logins>>
  /\ UNCHANGED <<fnVars, handlerVars>>

\* the recreation that forgets to assign: the old handle is used again
AfterRecreate_mut_keep(w, i) == AfterRaise(w)

\* "client = create_wyze_client(); raise", lines 159-160 and 270-271: the
\* local variable client takes the new handle, and the WyzeApiError leaves
\* the attempt
AfterRecreate(w, i) ==
  AfterRaise([w EXCEPT !.client = FreshWyze(i, w.attempt)])

\* the recreation under a lock of the family: one thread at a time
Recreate_mut_mutex(i) ==
  /\ i \in 1..Len(workers)
  /\ workers[i].pc = "recreate"
  /\ \A j \in 1..Len(workers) : j < i => workers[j].pc # "recreate"
  /\ workers' = [workers EXCEPT ![i] = AfterRecreate(workers[i], i)]
  /\ wyze_pickle' = FreshWyze(i, workers[i].attempt)
  /\ creations' = [creations EXCEPT ![API_WYZE] = @ + 1]
  /\ logins' = [logins EXCEPT ![API_WYZE] = @ + 1]
  /\ UNCHANGED <<entry, params, main_pc, devices, action, action_value,
                 is_valid, help_displayed, idx, clients, vesync_pickle,
                 get_client_calls>>
  /\ UNCHANGED <<fnVars, handlerVars>>

\* create_wyze_client(), home_automation_wyze.py lines 50-56, called by the
\* except clause: a login, and the new client written to the pickle file
Recreate(i) ==
  /\ i \in 1..Len(workers)
  /\ workers[i].pc = "recreate"
  /\ workers' = [workers EXCEPT ![i] = AfterRecreate(workers[i], i)]
  /\ wyze_pickle' = FreshWyze(i, workers[i].attempt)
  /\ creations' = [creations EXCEPT ![API_WYZE] = @ + 1]
  /\ logins' = [logins EXCEPT ![API_WYZE] = @ + 1]
  /\ UNCHANGED <<entry, params, main_pc, devices, action, action_value,
                 is_valid, help_displayed, idx, clients, vesync_pickle,
                 get_client_calls>>
  /\ UNCHANGED <<fnVars, handlerVars>>

\* fan_action, home_automation_vesync.py lines 142-151: no retry; an
\* exception of the lookup or of the handler ends the thread
FanResults == {"ok", "exc"}

\* a fan_action whose exception ends every thread of the process
FanAction_mut_abort(i) ==
  /\ i \in 1..Len(workers)
  /\ workers[i].kind = DEVICE_TYPE_FAN
  /\ workers[i].pc = "run"
  /\ \E result \in FanResults :
       workers' = [j \in 1..Len(workers) |->
         IF j = i
         THEN [workers[j] EXCEPT
                 !.hist = Append(@, Made(workers[i].client, result,
                   IF fan_action_fetches(action, action_value) THEN workers[i].client ELSE 0,
                   IF fan_action_fetches(action, action_value) THEN 1 ELSE 0)),
                 !.pc = IF result = "ok" THEN "done" ELSE "failed"]
         ELSE IF result = "ok" THEN workers[j]
         ELSE [workers[j] EXCEPT !.pc = "failed"]]
  /\ UNCHANGED <<entry, params, main_pc, devices, action, action_value,
                 is_valid, help_displayed, idx, clients, vesync_pickle,
                 wyze_pickle, get_client_calls, creations, logins>>
  /\ UNCHANGED <<fnVars, handlerVars>>

FanAction(i) ==
  /\ i \in 1..Len(workers)
  /\ workers[i].kind = DEVICE_TYPE_FAN
  /\ workers[i].pc = "run"
  /\ \E result \in FanResults :
       workers' = [workers EXCEPT ![i] =
         [@ EXCEPT !.hist = Append(@, Made(workers[i].client, result,
                   IF fan_action_fetches(action, action_value) THEN workers[i].client ELSE 0,
                   IF fan_action_fetches(action, action_value) THEN 1 ELSE 0)),
                   !.pc = IF result = "ok" THEN "done" ELSE "failed"]]
  /\ UNCHANGED <<entry, params, main_pc, devices, action, action_value,
                 is_valid, help_displayed, idx, clients, vesync_pickle,
                 wyze_pickle, get_client_calls, creations, logins>>
  /\ UNCHANGED <<fnVars, handlerVars>>

\* the exit status of the process (lines 384-385: main(sys.argv) and the
\* end of the script): 0 once main has returned, 1 if main was left by an
\* exception; an exception that ends a thread does not change it
ExitStatus == IF main_pc = "raised" THEN 1 ELSE 0

Next ==
  \/ MainValidate
  \/ MainLaunch
  \/ MainJoin
  \/ \E i \in 1..MaxDevices + MaxCallers : Attempt(i)
  \/ \E i \in 1..MaxDevices + MaxCallers : Recreate(i)
  \/ \E i \in 1..MaxDevices + MaxCallers : FanAction(i)

Spec == Init /\ [][Next]_vars

(***************************************************************************)
(* The functions of home_automation.py called on their own: the arguments  *)
(* are drawn, the function is applied once, and its outcome is kept.       *)
(***************************************************************************)
\* the outcome of a call: it returned a value, or raised an exception
Returned(v) == [raised |-> FALSE, value |-> v]
Raised(e) == [raised |-> TRUE, value |-> e]

\* the run of main and the handler thread are not part of these runs
MainIdle ==
  /\ entry = "none"
  /\ params = <<>>
  /\ main_pc = "none"
  /\ devices = NoDevices
  /\ action = None
  /\ action_value = None
  /\ is_valid = FALSE
  /\ help_displayed = FALSE
  /\ idx = 0
  /\ clients = [a \in Apis |-> 0]
  /\ vesync_pickle = 0
  /\ wyze_pickle = 0
  /\ get_client_calls = 0
  /\ creations = [a \in Apis |-> 0]
  /\ logins = [a \in Apis |-> 0]
  /\ workers = <<>>

\* strings given as action value: every string of at most FnStringLen
\* characters of FnAlphabet, the strings at the limits of the ranges, and
\* None
FnAlphabet == {"0", "1", "3", "4", "9", "+", "-", "c", "U+00B2"}

FnLimitStrings ==
  { <<"1", "0", "0">>, <<"1", "0", "1">>, <<"0", "5", "0">>,
    <<"2", "6", "9", "9">>, <<"2", "7", "0", "0">>, <<"3", "0", "0", "0">>,
    <<"6", "5", "0", "0">>, <<"6", "5", "0", "1">>,
    <<"c", "y", "c", "l", "e">>, <<"C", "y", "c", "l", "e">> }

FnStrings ==
  UNION { [1..n -> FnAlphabet] : n \in 0..FnStringLen } \cup FnLimitStrings

FnValues == FnStrings \cup {None}

\* the value types of the validations table, and one that is none of them
FnValueTypes ==
  { NoValueType, ACTION_VALUE_TYPE_BRIGHTNESS,
    ACTION_VALUE_TYPE_COLOR_TEMPERATURE, ACTION_VALUE_TYPE_FAN_SPEED, "bogus" }

FnInitValidateActionValue ==
  \E t \in FnValueTypes, v \in FnValues :
    fn_call = [fn |-> "validate_action_value", args |-> <<t, v>>]

ApplyValidateActionValue ==
  /\ fn_ret = <<>>
  /\ fn_call # NoCall
  /\ fn_call.fn = "validate_action_value"
  /\ fn_ret' = << IF validate_action_value_raises(fn_call.args[1], fn_call.args[2])
                  THEN Raised("ValueError")
                  ELSE Returned(validate_action_value(fn_call.args[1], fn_call.args[2])) >>
  /\ UNCHANGED <<mainVars, fn_call, handlerVars>>

\* action tokens as parse_parameters hands them to convert_aliases (lowered,
\* or None): the aliases, the action names, and other text
FnActions ==
  DOMAIN action_aliases
  \cup { ACTION_ON, ACTION_OFF, ACTION_TOGGLE, ACTION_GET, ACTION_BRIGHTNESS,
         ACTION_COLOR_TEMPERATURE, ACTION_FAN_SPEED }
  \cup { None, <<>>, <<"x">>, <<"4">>, <<"x", "|", "y">>, <<"x", "|">>, <<"|">>,
         <<"a", "|", "b", "|", "c">> }

FnAliasValues ==
  { None, <<>>, <<"+">>, <<"2">>, <<"5", "0">>, <<"3", "0", "0", "0">>,
    <<"c", "y", "c", "l", "e">> }

FnInitConvertAliases ==
  \E a \in FnActions, v \in FnAliasValues :
    fn_call = [fn |-> "convert_aliases", args |-> <<a, v>>]

ApplyConvertAliases ==
  /\ fn_ret = <<>>
  /\ fn_call # NoCall
  /\ fn_call.fn = "convert_aliases"
  /\ fn_ret' = << IF convert_aliases_raises(fn_call.args[1], fn_call.args[2])
                  THEN Raised("IndexError")
                  ELSE Returned(convert_aliases(fn_call.args[1], fn_call.args[2])) >>
  /\ UNCHANGED <<mainVars, fn_call, handlerVars>>

FnDeviceTypes == {DEVICE_TYPE_PLUG, DEVICE_TYPE_BULB, DEVICE_TYPE_FAN, "camera"}

\* actions as convert_aliases returns them
FnDeviceActions ==
  { ACTION_ON, ACTION_OFF, ACTION_TOGGLE, ACTION_GET, ACTION_BRIGHTNESS,
    ACTION_COLOR_TEMPERATURE, ACTION_FAN_SPEED, None, <<>>, <<"x">> }

FnDeviceValues ==
  { None, <<>>, <<"+">>, <<"-">>, <<"0">>, <<"2">>, <<"5", "0">>,
    <<"3", "0", "0", "0">>, <<"c", "y", "c", "l", "e">>, <<"U+00B2">>, <<"x">> }

FnInitValidateParametersForDevice ==
  \E t \in FnDeviceTypes, a \in FnDeviceActions, v \in FnDeviceValues :
    fn_call = [fn |-> "validate_parameters_for_device", args |-> <<"d", t, a, v>>]

\* the outcome, and the calls of validate_action_value that were made
ApplyValidateParametersForDevice ==
  /\ fn_ret = <<>>
  /\ fn_call # NoCall
  /\ fn_call.fn = "validate_parameters_for_device"
  /\ LET t == fn_call.args[2]
         a == fn_call.args[3]
         v == fn_call.args[4]
     IN  fn_ret' = << IF validate_parameters_for_device_raises(t, a, v)
                      THEN Raised("ValueError")
                      ELSE Returned(validate_parameters_for_device("d", t, a, v)),
                      validate_parameters_for_device_calls(t, a, v) >>
  /\ UNCHANGED <<mainVars, fn_call, handlerVars>>

\* The circadian script, circadian_lighting.py lines 88-118.  Times are whole
\* seconds from 0 to MaxTime.
TEMP_MORNING_START_COLOR_TEMPERATURE == 4000

\* str() of a natural number, and of None
DigitChar(d) == CHOOSE c \in Digits : DigitValue(c) = d

RECURSIVE Str(_)
Str(n) == IF n < 10 THEN <<DigitChar(n)>> ELSE Append(Str(n \div 10), DigitChar(n % 10))

StrNone == <<"N", "o", "n", "e">>

\* round(x) for x = num / den >= 0: to the nearest integer, a half to the
\* even one (with durations up to MaxTime no product is a half, and the
\* float product is within 1e-9 of num / den)
Round(num, den) ==
  LET q == num \div den
      r == num % den
  IN  IF 2 * r < den THEN q
      ELSE IF 2 * r > den THEN q + 1
      ELSE IF q % 2 = 0 THEN q ELSE q + 1

\* lines 88-115: new_temperature after the if / elif chain, as
\* [is_none, value]: it stays None when no branch assigns it
Assigned(n) == [is_none |-> FALSE, value |-> n]

new_temperature(now, sunrise, solar_noon, sunset) ==
  IF now < sunrise
  THEN Assigned(TEMP_MORNING_START_COLOR_TEMPERATURE)
  ELSE IF sunrise < now /\ now < solar_noon
  THEN Assigned(TEMP_MORNING_START_COLOR_TEMPERATURE
         + Round((WYZE_BULB_COLOR_TEMPERATURE_MAX - TEMP_MORNING_START_COLOR_TEMPERATURE)
                   * (now - sunrise), solar_noon - sunrise))
  ELSE IF solar_noon < now /\ now < sunset
  THEN Assigned(WYZE_BULB_COLOR_TEMPERATURE_MAX
         - Round(WYZE_BULB_COLOR_TEMPERATURE_RANGE * (now - solar_noon),
                 sunset - solar_noon))
  ELSE IF now > sunset
  THEN Assigned(WYZE_BULB_COLOR_TEMPERATURE_MIN)
  ELSE [is_none |-> TRUE, value |-> 0]

\* line 118: the action value of the list given to home_automation.main
circadian_action_value(now, sunrise, solar_noon, sunset) ==
  LET t == new_temperature(now, sunrise, solar_noon, sunset)
  IN  IF t.is_none THEN StrNone ELSE Str(t.value)

Times == 0..MaxTime

FnInitCircadian ==
  \E now \in Times, sunrise \in Times, solar_noon \in Times, sunset \in Times :
    /\ sunrise < solar_noon
    /\ solar_noon < sunset
    /\ fn_call = [fn |-> "circadian_lighting",
                  args |-> <<now, sunrise, solar_noon, sunset>>]

ApplyCircadian ==
  /\ fn_ret = <<>>
  /\ fn_call # NoCall
  /\ fn_call.fn = "circadian_lighting"
  /\ fn_ret' = << Returned(circadian_action_value(
                     fn_call.args[1], fn_call.args[2], fn_call.args[3], fn_call.args[4])) >>
  /\ UNCHANGED <<mainVars, fn_call, handlerVars>>

FnInit ==
  /\ MainIdle
  /\ vendor_device = NoDevice
  /\ handler_calls = <<>>
  /\ fn_ret = <<>>
  /\ \/ FnInitValidateActionValue
     \/ FnInitConvertAliases
     \/ FnInitValidateParametersForDevice
     \/ FnInitCircadian

FnNext ==
  \/ ApplyValidateActionValue
  \/ ApplyConvertAliases
  \/ ApplyValidateParametersForDevice
  \/ ApplyCircadian

FnSpec == FnInit /\ [][FnNext]_vars

(***************************************************************************)
(* One device and the handler calls made on it.                            *)
(***************************************************************************)
HandlerInit ==
  /\ MainIdle
  /\ fn_call = NoCall
  /\ fn_ret = <<>>
  /\ handler_calls = <<>>
  /\ \/ vendor_device \in Bulbs
     \/ vendor_device \in Fans

\* a run repeats one action on the device, with any of its values
MayCall(a) ==
  /\ Len(handler_calls) < MaxCalls
  /\ handler_calls # <<>> => handler_calls[1].action = a

HandlerCall(a, v, sent, on) ==
  /\ handler_calls' = Append(handler_calls,
       [action |-> a, action_value |-> v, device |-> vendor_device, sent |-> sent])
  /\ vendor_device' = VendorApplyAll(vendor_device, sent, on)
  /\ UNCHANGED <<mainVars, fnVars>>

BulbActionBrightness ==
  /\ vendor_device.kind = DEVICE_TYPE_BULB
  /\ MayCall(ACTION_BRIGHTNESS)
  /\ \E v \in BrightnessValues, on \in BOOLEAN :
       HandlerCall(ACTION_BRIGHTNESS, v, bulb_action_brightness(vendor_device, v), on)

BulbActionColorTemperature ==
  /\ vendor_device.kind = DEVICE_TYPE_BULB
  /\ MayCall(ACTION_COLOR_TEMPERATURE)
  /\ \E v \in ColorTemperatureValues :
       HandlerCall(ACTION_COLOR_TEMPERATURE, v,
                   bulb_action_color_temperature(vendor_device, v), FALSE)

FanActionSpeed ==
  /\ vendor_device.kind = DEVICE_TYPE_FAN
  /\ MayCall(ACTION_FAN_SPEED)
  /\ \E v \in FanSpeedValues :
       HandlerCall(ACTION_FAN_SPEED, v, fan_action_speed(vendor_device, v), FALSE)

HandlerNext ==
  \/ BulbActionBrightness
  \/ BulbActionColorTemperature
  \/ FanActionSpeed

HandlerSpec == HandlerInit /\ [][HandlerNext]_vars

(***************************************************************************)
(* Observations used by the properties.                                    *)
(***************************************************************************)
InMain == entry = "main"

\* main's device list ([] when resolution returned None)
DeviceList == IF devices = NoDevices THEN <<>> ELSE devices[1]

RECURSIVE DeviceCalls(_)
DeviceCalls(ws) ==
  IF ws = <<>> THEN 0 ELSE Len(Head(ws).hist) + DeviceCalls(Tail(ws))

\* vendor API calls issued so far: logins and dispatch attempts
VendorCalls == logins[API_WYZE] + logins[API_VESYNC] + DeviceCalls(workers)

DevicePasses(d) ==
  validate_parameters_for_device(d.device_name, d.device_type, action, action_value)

IsRetried(w) == w.kind \in {DEVICE_TYPE_PLUG, DEVICE_TYPE_BULB}

WorkerStep(i) == Attempt(i) \/ Recreate(i) \/ FanAction(i)

(***************************************************************************)
(* Properties.                                                             *)
(***************************************************************************)

\* C1: when the batch is rejected by validation (no device list, or some
\* device K of the list fails validate_parameters_for_device for the action
\* and value), main starts no thread, never calls get_client and issues no
\* vendor call for any device; it displays the help and returns.
C1_RejectedBatchDispatchesNothing ==
  ( /\ InMain
    /\ main_pc # "start"
    /\ \/ devices = NoDevices
       \/ \E k \in 1..Len(DeviceList) : ~DevicePasses(DeviceList[k]) )
  => /\ workers = <<>>
     /\ get_client_calls = 0
     /\ VendorCalls = 0
     /\ help_displayed
     /\ main_pc = "returned"

\* a batch of two resolved devices whose second one fails validation while
\* the first one passes: nothing was dispatched and the help was displayed
C1_Witness ==
  /\ InMain
  /\ main_pc = "returned"
  /\ help_displayed
  /\ Len(DeviceList) = 2
  /\ DevicePasses(DeviceList[1])
  /\ ~DevicePasses(DeviceList[2])
  /\ workers = <<>>

\* C2: for a validated batch, the threads main has started are one per
\* device descriptor, in order, never more; and when main has returned
\* there is one thread for every device and every thread has ended
\* (succeeded or failed): main is never returned while a thread still runs.
C2_ReturnsAfterAllWorkers ==
  InMain =>
    /\ Len(workers) <= Len(DeviceList)
    /\ \A i \in 1..Len(workers) :
         /\ workers[i].kind = DeviceList[i].device_type
         /\ workers[i].id = DeviceList[i].device_id
    /\ (workers # <<>> => is_valid)
    /\ (main_pc = "returned" /\ is_valid) =>
         /\ Len(workers) = Len(DeviceList)
         /\ \A i \in 1..Len(workers) : Finished(workers[i])

\* main returned from a batch of two devices, both threads ended
C2_Witness ==
  /\ InMain
  /\ main_pc = "returned"
  /\ is_valid
  /\ Len(workers) = 2
  /\ \A i \in 1..Len(workers) : workers[i].pc = "done"

\* C3: a thread whose dispatch raises does not cancel or block the others.
\* A step of one thread changes no other thread and not main's position;
\* while some thread has failed, every thread that has not ended can still
\* take its step, and main, once all threads are started, is either able to
\* join the next thread or waiting for a thread that can run; and if main
\* has returned, all N threads, the failed one included, were joined.
C3_NotCancelled ==
  \A i \in 1..Len(workers) :
    (Len(workers') = Len(workers) /\ workers'[i] # workers[i]) =>
      /\ \A j \in 1..Len(workers) : j # i => workers'[j] = workers[j]
      /\ main_pc' = main_pc

C3_NotBlocked ==
  (\E i \in 1..Len(workers) : workers[i].pc = "failed") =>
    /\ \A j \in 1..Len(workers) : ~Finished(workers[j]) => ENABLED WorkerStep(j)
    /\ main_pc = "join" =>
         \/ ENABLED MainJoin
         \/ ~Finished(workers[idx]) /\ ENABLED WorkerStep(idx)
    /\ main_pc = "returned" =>
         /\ Len(workers) = Len(DeviceList)
         /\ \A j \in 1..Len(workers) : Finished(workers[j])

C3_SiblingsUnaffected == []C3_NotBlocked /\ [][C3_NotCancelled]_vars

\* main returned from a batch of two devices of which the first failed with
\* an exception and the second succeeded afterwards
C3_Witness ==
  /\ InMain
  /\ main_pc = "returned"
  /\ Len(workers) = 2
  /\ workers[1].pc = "failed"
  /\ workers[1].hist[1].result = "exc"
  /\ workers[2].pc = "done"

\* C4: the retry wrapper of plug_action / bulb_action makes at most 3
\* attempts; an attempt is followed by another one only if it raised (no
\* attempt follows one that succeeded); and the attempt that follows one
\* ended by the expired-credential error uses the handle created after that
\* error, which is none of the handles used before.
C4_RetryWrapper ==
  \A i \in 1..Len(workers) :
    LET w == workers[i]
        h == w.hist
    IN  IsRetried(w) =>
          /\ Len(h) <= StopAfterAttempt
          /\ \A k \in 1..(Len(h) - 1) : h[k].result \in {"expired", "exc"}
          /\ (w.pc = "done" => h[Len(h)].result \notin {"expired", "exc"})
          /\ \A k \in 1..(Len(h) - 1) :
               h[k].result = "expired" =>
                 /\ h[k + 1].client = FreshWyze(i, k)
                 /\ \A m \in 1..k : h[m].client # h[k + 1].client
          /\ (w.pc = "run" /\ h # <<>> /\ h[Len(h)].result = "expired") =>
               w.client = FreshWyze(i, Len(h))

\* a thread whose first attempt ended with the expired-credential error and
\* whose second attempt, made with the new handle, succeeded
C4_Witness ==
  \E i \in 1..Len(workers) :
    /\ IsRetried(workers[i])
    /\ workers[i].pc = "done"
    /\ Len(workers[i].hist) = 2
    /\ workers[i].hist[1].result = "expired"
    /\ workers[i].hist[2].result = "ok"
    /\ workers[i].hist[2].client # workers[i].hist[1].client

\* C5: an attempt that fails with an error other than the expired-credential
\* error (a WyzeApiError with another message, or an exception that is no
\* WyzeApiError) is the last attempt, and the thread ends failed: the error
\* is raised out of the wrapper and never swallowed.
C5_OtherErrorsAbortAndSurface ==
  \A i \in 1..Len(workers) :
    LET w == workers[i]
        h == w.hist
    IN  IsRetried(w) =>
          \A k \in 1..Len(h) :
            h[k].result \in {"apierr", "exc"} => (k = Len(h) /\ w.pc = "failed")

\* C6: when all 3 attempts ended with the expired-credential error the
\* thread does not end succeeded and makes no further attempt: it is in its
\* third client recreation or has failed, and once failed it takes no step.
C6_ExhaustedRetriesFail ==
  \A i \in 1..Len(workers) :
    LET w == workers[i]
        h == w.hist
    IN  IsRetried(w) =>
          /\ Len(h) <= StopAfterAttempt
          /\ ( /\ Len(h) = StopAfterAttempt
               /\ \A k \in 1..Len(h) : h[k].result = "expired" )
             => /\ w.pc \in {"recreate", "failed"}
                /\ w.pc = "failed" => ~ENABLED WorkerStep(i)

\* a thread that failed after three attempts ended by the expired error
C6_Witness ==
  \E i \in 1..Len(workers) :
    /\ IsRetried(workers[i])
    /\ workers[i].pc = "failed"
    /\ Len(workers[i].hist) = StopAfterAttempt
    /\ \A k \in 1..StopAfterAttempt : workers[i].hist[k].result = "expired"

\* C7: in a run of main, a client is created at most once per API family
\* (and logged in at most once), and every thread of a family was given the
\* same handle, the one held in clients[family].
C7_OneCreationPerFamily ==
  InMain =>
    /\ \A a \in Apis : creations[a] <= 1 /\ logins[a] <= 1
    /\ \A i \in 1..Len(workers) :
         /\ workers[i].client # 0
         /\ workers[i].client = clients[DeviceList[i].device_api]
    /\ \A i, j \in 1..Len(workers) :
         DeviceList[i].device_api = DeviceList[j].device_api
           => workers[i].client = workers[j].client

\* get_client was called twice for the same family and created one client
C7_Witness ==
  /\ InMain
  /\ get_client_calls = 2
  /\ Len(workers) = 2
  /\ DeviceList[1].device_api = DeviceList[2].device_api
  /\ creations[API_VESYNC] = 1
  /\ workers[1].client = workers[2].client

\* C8: if any name of the command line has no registry entry,
\* parse_parameters returns no device list, validation fails and no device
\* of the batch is dispatched, the ones named before the missing one
\* included.
C8_MissingNameAbortsBatch ==
  ( /\ InMain
    /\ main_pc # "start"
    /\ Len(params) > 1
    /\ \E k \in 1..Len(params[2]) :
         DeviceEnvVariable(NameLower(params[2][k])) \notin DOMAIN environ )
  => /\ devices = NoDevices
     /\ ~is_valid
     /\ workers = <<>>
     /\ get_client_calls = 0
     /\ VendorCalls = 0

\* "fan1,ghost on": the first name is defined and the action is valid for
\* it, the second name is not defined; nothing was dispatched
C8_Witness ==
  /\ InMain
  /\ main_pc = "returned"
  /\ Len(params) > 2
  /\ params[2] = <<"fan1", "ghost">>
  /\ Lower(params[3]) = ACTION_ON
  /\ devices = NoDevices
  /\ help_displayed
  /\ workers = <<>>

\* device lists on which validate_parameters is evaluated, [] included
RegistryDevices ==
  { [device_name |-> "fan1", device_api |-> API_VESYNC,
     device_type |-> DEVICE_TYPE_FAN, device_id |-> "F1"],
    [device_name |-> "plug1", device_api |-> API_WYZE,
     device_type |-> DEVICE_TYPE_PLUG, device_id |-> "P1"],
    [device_name |-> "bulb1", device_api |-> API_WYZE,
     device_type |-> DEVICE_TYPE_BULB, device_id |-> "B1"] }

TestDeviceLists == UNION { [1..n -> RegistryDevices] : n \in 0..MaxDevices }

\* C9: validate_parameters returns true iff the device list is a non-empty
\* list of which every device passes validate_parameters_for_device; main
\* acts on that answer, so that a batch in which the action is legal for
\* only some devices starts no thread at all.
C9_AllOrNothing ==
  /\ (InMain /\ main_pc = "start") =>
       LET parsed == parse_parameters(params)
       IN  \A ds \in TestDeviceLists :
             validate_parameters(<<ds>>, parsed[2], parsed[3])
               <=> ( /\ Len(ds) > 0
                     /\ \A k \in 1..Len(ds) :
                          validate_parameters_for_device(ds[k].device_name,
                            ds[k].device_type, parsed[2], parsed[3]) )
  /\ (InMain /\ main_pc # "start") =>
       /\ is_valid <=> ( /\ devices # NoDevices
                         /\ Len(DeviceList) > 0
                         /\ \A k \in 1..Len(DeviceList) : DevicePasses(DeviceList[k]) )
       /\ (~is_valid => workers = <<>> /\ VendorCalls = 0)

\* "bulb1,plug1 bright 50": legal for the bulb, not for the plug; rejected
\* as a whole
C9_Witness ==
  /\ InMain
  /\ main_pc = "returned"
  /\ ~is_valid
  /\ Len(DeviceList) = 2
  /\ DeviceList[1].device_type = DEVICE_TYPE_BULB
  /\ DeviceList[2].device_type = DEVICE_TYPE_PLUG
  /\ action = ACTION_BRIGHTNESS
  /\ DevicePasses(DeviceList[1])
  /\ ~DevicePasses(DeviceList[2])
  /\ workers = <<>>

\* the per-kind legal sets of the data model
LegalActions(device_type) ==
  CASE device_type = DEVICE_TYPE_PLUG ->
         {ACTION_ON, ACTION_OFF, ACTION_TOGGLE, ACTION_GET}
    [] device_type = DEVICE_TYPE_BULB ->
         {ACTION_ON, ACTION_OFF, ACTION_TOGGLE, ACTION_GET,
          ACTION_BRIGHTNESS, ACTION_COLOR_TEMPERATURE}
    [] device_type = DEVICE_TYPE_FAN ->
         {ACTION_ON, ACTION_OFF, ACTION_TOGGLE, ACTION_GET, ACTION_FAN_SPEED}

\* C10: with a valid action value, validation accepts an action for a
\* device kind iff the action is in the kind's legal set (plugs
\* ON/OFF/TOGGLE/GET; bulbs those and SET_BRIGHTNESS/SET_COLOR_TEMP; fans
\* ON/OFF/TOGGLE/GET/SET_FAN_SPEED).  Stated for the batch main validated:
\* a batch of one device, with a valid value for the action, is accepted
\* iff the action is legal for the device's kind.
C10_AcceptedIsLegalSet ==
  ( /\ InMain
    /\ main_pc # "start"
    /\ Len(DeviceList) = 1
    /\ action # None
    /\ validate_action_value(
         IF action = ACTION_BRIGHTNESS THEN ACTION_VALUE_TYPE_BRIGHTNESS
         ELSE IF action = ACTION_COLOR_TEMPERATURE THEN ACTION_VALUE_TYPE_COLOR_TEMPERATURE
         ELSE IF action = ACTION_FAN_SPEED THEN ACTION_VALUE_TYPE_FAN_SPEED
         ELSE NoValueType, action_value) )
  => (is_valid <=> action \in LegalActions(DeviceList[1].device_type))

\* the rule table of the action values: the answer for a value type and a
\* value
DecimalIn(value, lo, hi) ==
  /\ value # None
  /\ Len(value) > 0
  /\ \A i \in 1..Len(value) : value[i] \in Digits
  /\ lo <= ToInt(value)
  /\ ToInt(value) <= hi

RuleTable(action_value_type, value) ==
  CASE action_value_type = NoValueType -> TRUE
    [] action_value_type = ACTION_VALUE_TYPE_BRIGHTNESS ->
         value \in {<<"+">>, <<"-">>} \/ DecimalIn(value, 1, 100)
    [] action_value_type = ACTION_VALUE_TYPE_COLOR_TEMPERATURE ->
         value \in {<<"+">>, <<"-">>} \/ DecimalIn(value, 2700, 6500)
    [] action_value_type = ACTION_VALUE_TYPE_FAN_SPEED ->
         DecimalIn(value, 1, 3) \/ value = <<"c", "y", "c", "l", "e">>

FnCalled(name) == fn_call # NoCall /\ fn_call.fn = name /\ fn_ret # <<>>

\* the call has returned the value v
FnReturned(v) == ~fn_ret[1].raised /\ fn_ret[1].value = v

\* C11: for every value type of the table and every value,
\* validate_action_value returns the answer of the rule table: brightness
\* valid iff '+', '-' or a numeric string in [1,100]; color temperature iff
\* '+', '-' or numeric in [2700,6500]; fan speed iff numeric in [1,3] or
\* 'cycle'; no value type: valid for every value, None included; None is
\* invalid for every type that takes a value.
C11_AgreesWithRuleTable ==
  ( /\ FnCalled("validate_action_value")
    /\ fn_call.args[1] # "bogus" )
  => FnReturned(RuleTable(fn_call.args[1], fn_call.args[2]))

\* the documented aliases: alias -> <<canonical action, fixed value>>, where
\* KeepsValue stands for "the supplied value is kept"
KeepsValue == <<"keeps">>

DocumentedAliases ==
  ( <<"n">> :> <<ACTION_ON, KeepsValue>> ) @@
  ( <<"f">> :> <<ACTION_OFF, KeepsValue>> ) @@
  ( <<"b">> :> <<ACTION_BRIGHTNESS, KeepsValue>> ) @@
  ( <<"b", "r", "i", "g", "h", "t", "n", "e", "s", "s">> :> <<ACTION_BRIGHTNESS, KeepsValue>> ) @@
  ( <<"t">> :> <<ACTION_COLOR_TEMPERATURE, KeepsValue>> ) @@
  ( <<"t", "e", "m", "p", "e", "r", "a", "t", "u", "r", "e">> :> <<ACTION_COLOR_TEMPERATURE, KeepsValue>> ) @@
  ( <<"w", "a", "r", "m">> :> <<ACTION_COLOR_TEMPERATURE, <<"3", "0", "0", "0">>>> ) @@
  ( <<"c", "o", "o", "l">> :> <<ACTION_COLOR_TEMPERATURE, <<"6", "5", "0", "0">>>> ) @@
  ( <<"1">> :> <<ACTION_FAN_SPEED, <<"1">>>> ) @@
  ( <<"2">> :> <<ACTION_FAN_SPEED, <<"2">>>> ) @@
  ( <<"3">> :> <<ACTION_FAN_SPEED, <<"3">>>> )

\* C12: for every supported alias and every supplied value, convert_aliases
\* returns (it never raises) the documented pair: 'n' -> on, 'f' -> off,
\* 'b'/'brightness' -> bright, 't'/'temperature' -> temp with the supplied
\* value; 'warm' -> (temp, 3000), 'cool' -> (temp, 6500), '1'/'2'/'3' ->
\* (speed, 1/2/3) whatever value was supplied.  And no call of it raises.
C12_AliasesCanonical ==
  FnCalled("convert_aliases") =>
    /\ ~fn_ret[1].raised
    /\ fn_call.args[1] \in DOMAIN DocumentedAliases =>
         LET doc == DocumentedAliases[fn_call.args[1]]
         IN  fn_ret[1].value =
               << doc[1], IF doc[2] = KeepsValue THEN fn_call.args[2] ELSE doc[2] >>

\* 'warm' given with the value 50 became (temp, 3000)
C12_Witness ==
  /\ FnCalled("convert_aliases")
  /\ fn_call.args = << <<"w", "a", "r", "m">>, <<"5", "0">> >>
  /\ FnReturned(<<ACTION_COLOR_TEMPERATURE, <<"3", "0", "0", "0">>>>)

\* the set request of a handler call, and its value
SetCmd(a) ==
  CASE a = ACTION_BRIGHTNESS -> "set_brightness"
    [] a = ACTION_COLOR_TEMPERATURE -> "set_color_temp"
    [] a = ACTION_FAN_SPEED -> "change_fan_speed"

SetRequests(c) == SelectSeq(c.sent, LAMBDA r : r.cmd = SetCmd(c.action))

HasSet(c) == Len(SetRequests(c)) > 0

SetValue(c) == SetRequests(c)[1].value

\* the value of the property the action is about, in the device object the
\* handler was given
Current(c) ==
  IF c.action = ACTION_BRIGHTNESS THEN c.device.brightness ELSE c.device.color_temp

PropertyMin(a) ==
  IF a = ACTION_BRIGHTNESS THEN WYZE_BULB_BRIGHTNESS_MIN ELSE WYZE_BULB_COLOR_TEMPERATURE_MIN

PropertyMax(a) ==
  IF a = ACTION_BRIGHTNESS THEN WYZE_BULB_BRIGHTNESS_MAX ELSE WYZE_BULB_COLOR_TEMPERATURE_MAX

\* v plus (sign 1) or minus (sign -1) one fifth of the range leaves the
\* range: the step is clamped.  Stated in fifths.
Clamped(a, v, sign) ==
  LET x == 5 * v + sign * (PropertyMax(a) - PropertyMin(a))
  IN  x > 5 * PropertyMax(a) \/ x < 5 * PropertyMin(a)

IsBulbCall(c) == c.action \in {ACTION_BRIGHTNESS, ACTION_COLOR_TEMPERATURE}

\* two calls in a row, '+' then '-', both of which sent their set request
PlusThenMinus(k) ==
  /\ k + 1 <= Len(handler_calls)
  /\ IsBulbCall(handler_calls[k])
  /\ handler_calls[k].action_value = <<"+">>
  /\ handler_calls[k + 1].action_value = <<"-">>
  /\ HasSet(handler_calls[k])
  /\ HasSet(handler_calls[k + 1])

\* C13: for brightness and for color temperature, and every current value v
\* of the range: '+' and then '-', each as the handler computes it (integer
\* conversion included), sends v again as the second value, unless one of
\* the two steps was clamped at MIN or MAX.
C13_PlusMinusRoundTrip ==
  \A k \in 1..Len(handler_calls) :
    ( /\ PlusThenMinus(k)
      /\ ~Clamped(handler_calls[k].action, Current(handler_calls[k]), 1)
      /\ ~Clamped(handler_calls[k].action, SetValue(handler_calls[k]), -1) )
    => SetValue(handler_calls[k + 1]) = Current(handler_calls[k])

\* the device after the k-th handler call
DeviceAfter(k) ==
  IF k < Len(handler_calls) THEN handler_calls[k + 1].device ELSE vendor_device

\* the numbers the absolute action values stand for
NumberGiven ==
  ( <<"1">> :> 1 ) @@ ( <<"2">> :> 2 ) @@ ( <<"3">> :> 3 ) @@
  ( <<"5", "0">> :> 50 ) @@ ( <<"3", "0", "0", "0">> :> 3000 )

NextLevel(l) == CASE l = 1 -> 2 [] l = 2 -> 3 [] l = 3 -> 1

\* C14: a speed action sends exactly one set-speed request and no on/off
\* request: with 'cycle' its value is the level after the one read from the
\* fan (1 -> 2, 2 -> 3, 3 -> 1), with a number it is that number; the fan's
\* on/off state is the same after the action.
C14_SpeedOnlySetsSpeed ==
  \A k \in 1..Len(handler_calls) :
    LET c == handler_calls[k]
    IN  c.action = ACTION_FAN_SPEED =>
          /\ Len(SetRequests(c)) = 1
          /\ \A i \in 1..Len(c.sent) :
               c.sent[i].cmd \in {"change_fan_speed", "get_details"}
          /\ SetValue(c) = IF c.action_value = <<"c", "y", "c", "l", "e">>
                           THEN NextLevel(c.device.fan_level)
                           ELSE NumberGiven[c.action_value]
          /\ DeviceAfter(k).device_status = c.device.device_status
          /\ DeviceAfter(k).fan_level = SetValue(c)

\* 'cycle' on a fan that is off and at level 3 set the speed to 1 and left
\* the fan off
C14_Witness ==
  \E k \in 1..Len(handler_calls) :
    /\ handler_calls[k].action = ACTION_FAN_SPEED
    /\ handler_calls[k].action_value = <<"c", "y", "c", "l", "e">>
    /\ handler_calls[k].device.fan_level = 3
    /\ handler_calls[k].device.device_status = "off"
    /\ SetValue(handler_calls[k]) = 1
    /\ DeviceAfter(k).device_status = "off"

\* C15: a color-temperature action on a bulb that is off sends nothing and
\* leaves the bulb as it was if the bulb is a MeshLight, and sends the
\* set-color-temperature request if it is a Light; on a bulb that is on the
\* request is sent for both classes.
C15_ColorTempSkippedOnOffMeshLight ==
  \A k \in 1..Len(handler_calls) :
    LET c == handler_calls[k]
    IN  c.action = ACTION_COLOR_TEMPERATURE =>
          IF c.device.type = "MeshLight" /\ ~c.device.is_on
          THEN c.sent = <<>> /\ DeviceAfter(k) = c.device
          ELSE /\ Len(c.sent) = 1
               /\ c.sent[1].cmd = "set_color_temp"
               /\ DeviceAfter(k).color_temp = c.sent[1].value

\* two color-temperature actions on a MeshLight that is off: nothing was
\* sent and the bulb is as it was
C15_Witness ==
  /\ Len(handler_calls) = 2
  /\ \A k \in 1..2 :
       /\ handler_calls[k].action = ACTION_COLOR_TEMPERATURE
       /\ handler_calls[k].device.type = "MeshLight"
       /\ ~handler_calls[k].device.is_on
       /\ handler_calls[k].sent = <<>>
  /\ vendor_device = handler_calls[1].device

\* C16: a brightness action sends a turn-on request, before the
\* set-brightness request, exactly when the bulb is a Light that is off; in
\* every other case (bulb on, or MeshLight) it sends the set-brightness
\* request alone.
C16_TurnOnOnlyForOffLight ==
  \A k \in 1..Len(handler_calls) :
    LET c == handler_calls[k]
    IN  c.action = ACTION_BRIGHTNESS =>
          IF c.device.type = "Light" /\ ~c.device.is_on
          THEN /\ Len(c.sent) = 2
               /\ c.sent[1].cmd = "turn_on"
               /\ c.sent[2].cmd = "set_brightness"
          ELSE /\ Len(c.sent) = 1
               /\ c.sent[1].cmd = "set_brightness"

\* a brightness action on a Light that was off sent turn-on and then
\* set-brightness, and the next one, the bulb being on, set-brightness alone
C16_Witness ==
  /\ Len(handler_calls) = 2
  /\ handler_calls[1].action = ACTION_BRIGHTNESS
  /\ handler_calls[1].device.type = "Light"
  /\ ~handler_calls[1].device.is_on
  /\ Len(handler_calls[1].sent) = 2
  /\ handler_calls[2].device.is_on
  /\ Len(handler_calls[2].sent) = 1

\* the current value plus or minus one fifth of the range, clamped to
\* [MIN, MAX], as an integer (the fraction cut off); computed in fifths
StepClamped(a, v, sign) ==
  LET x == 5 * v + sign * (PropertyMax(a) - PropertyMin(a))
      y == IF x > 5 * PropertyMax(a) THEN 5 * PropertyMax(a)
           ELSE IF x < 5 * PropertyMin(a) THEN 5 * PropertyMin(a) ELSE x
  IN  y \div 5

C18_EveryKindIsRetried ==
  \A i \in 1..Len(workers) :
    workers[i].pc = "failed" => Len(workers[i].hist) = StopAfterAttempt

\* the process is over: main has ended and every thread has ended
ProcessOver ==
  /\ main_pc \in {"returned", "raised"}
  /\ \A i \in 1..Len(workers) : Finished(workers[i])

\* C19: when the process is over its exit status is 1 if validation failed,
\* 0 if every device's action succeeded, and not 0 if the action of at least
\* one device ended in a failure that was not recovered.
C19_ExitStatusReflectsRun ==
  (InMain /\ ProcessOver) =>
    /\ ~is_valid => ExitStatus = 1
    /\ ( /\ is_valid
         /\ Len(workers) = Len(DeviceList)
         /\ \A i \in 1..Len(workers) : workers[i].pc = "done" ) => ExitStatus = 0
    /\ (\E i \in 1..Len(workers) : workers[i].pc = "failed") => ExitStatus # 0

\* C20: for every device kind and every action that is not in the kind's
\* allowed set (None included), validate_parameters_for_device returns
\* false whatever the action value is, and makes no call of
\* validate_action_value.
C20_DisallowedActionIgnoresValue ==
  ( /\ FnCalled("validate_parameters_for_device")
    /\ fn_call.args[2] \in {DEVICE_TYPE_PLUG, DEVICE_TYPE_BULB, DEVICE_TYPE_FAN}
    /\ fn_call.args[3] \notin LegalActions(fn_call.args[2]) )
  => /\ FnReturned(FALSE)
     /\ fn_ret[2] = <<>>

\* 'speed 2' on a bulb: the value is a valid fan speed, the answer is false
\* and the value was not looked at
C20_Witness ==
  /\ FnCalled("validate_parameters_for_device")
  /\ fn_call.args = <<"d", DEVICE_TYPE_BULB, ACTION_FAN_SPEED, <<"2">>>>
  /\ FnReturned(FALSE)
  /\ fn_ret[2] = <<>>

\* the first call of get_client for the family a is made in this step
FirstGetClient(a) ==
  /\ main_pc = "launch"
  /\ get_client_calls' = get_client_calls + 1
  /\ devices[1][idx].device_api = a
  /\ clients[a] = 0

\* C21: on the first get_client(family) call of a process, for either
\* family: if the pickle file of the family exists its handle is loaded and
\* returned, with no login (and no request to the vendor to probe it); a
\* login, followed by writing the new handle to the file, is made only when
\* the file does not exist.
C21_FirstCall ==
  \A a \in Apis :
    FirstGetClient(a) =>
      LET file  == IF a = API_WYZE THEN wyze_pickle ELSE vesync_pickle
          file2 == IF a = API_WYZE THEN wyze_pickle' ELSE vesync_pickle'
      IN  /\ main_pc' # "raised"
          /\ Len(workers') = Len(workers) + 1
          /\ workers'[Len(workers')].client = clients'[a]
          /\ IF file # 0
             THEN /\ clients'[a] = file
                  /\ logins' = logins
                  /\ file2 = file
             ELSE /\ clients'[a] # 0
                  /\ logins'[a] = logins[a] + 1
                  /\ file2 = clients'[a]

C21_FirstCallLoadsPersisted == [][C21_FirstCall]_vars

\* the API family of a thread's device (plugs and bulbs are Wyze devices,
\* fans are VeSync devices)
Family(w) == IF w.kind = DEVICE_TYPE_FAN THEN API_VESYNC ELSE API_WYZE

\* C22: in every state of a run, states after an expiry recovery included,
\* there is one live client handle per API family: all threads of a family
\* use the same handle, and where main holds the cache it is clients[family].
C22_OneLiveHandlePerFamily ==
  /\ \A i, j \in 1..Len(workers) :
       Family(workers[i]) = Family(workers[j])
         => workers[i].client = workers[j].client
  /\ InMain => \A i \in 1..Len(workers) :
                 workers[i].client = clients[Family(workers[i])]

\* the handles that an attempt found expired
ExpiredAttempts ==
  { p \in (1..Len(workers)) \X (1..StopAfterAttempt) :
      /\ p[2] <= Len(workers[p[1]].hist)
      /\ workers[p[1]].hist[p[2]].result = "expired" }

ExpiredHandles == { workers[p[1]].hist[p[2]].client : p \in ExpiredAttempts }

\* C23: once a thread has recreated the handle after an expired credential,
\* clients[family] holds the new handle (the one last created and written to
\* the file) and no handle that was found expired, so that a later
\* get_client(family) returns the new handle.
C23_RecreationReplacesCache ==
  creations[API_WYZE] > 0 =>
    /\ clients[API_WYZE] = wyze_pickle
    /\ clients[API_WYZE] \notin ExpiredHandles

\* the recreations made so far, counted from the threads: the attempts that
\* ended with the expired credential and whose recreation is done
RecreationsDone ==
  Cardinality({ p \in ExpiredAttempts :
                  ~(p[2] = Len(workers[p[1]].hist) /\ workers[p[1]].pc = "recreate") })

\* C24: the recreation has no mutual exclusion per family: a thread that is
\* in the recreation can always take it, whatever the other threads are
\* doing (two threads whose shared handle is expired can be in it at the
\* same time), and every thread that found the credential expired makes its
\* own login and writes the file itself: one expiry of a shared handle causes
\* as many recreations as threads met it.
C24_NoMutualExclusion ==
  /\ \A i \in 1..Len(workers) :
       workers[i].pc = "recreate" => ENABLED Recreate(i)
  /\ creations[API_WYZE] = RecreationsDone
  /\ logins[API_WYZE] = RecreationsDone

\* two threads found the handle they share expired and are both in the
\* recreation
C24_Witness ==
  /\ Len(workers) >= 2
  /\ workers[1].pc = "recreate"
  /\ workers[2].pc = "recreate"
  /\ workers[1].hist[1].client = workers[2].hist[1].client
  /\ Len(workers[1].hist) = 1
  /\ Len(workers[2].hist) = 1

C26_NonAliasPassesThrough ==
  ( /\ FnCalled("convert_aliases")
    /\ fn_call.args[1] \notin DOMAIN action_aliases )
  => FnReturned(<<fn_call.args[1], fn_call.args[2]>>)

\* main's table of lines 359-363: device type -> the function its thread runs
actions ==
  ( DEVICE_TYPE_PLUG :> "plug_action" ) @@
  ( DEVICE_TYPE_BULB :> "bulb_action" ) @@
  ( DEVICE_TYPE_FAN  :> "fan_action" )

\* the handler tables the three functions index with the action
plug_actions ==
  ( ACTION_GET    :> "plug_action_get" ) @@
  ( ACTION_OFF    :> "plug_action_off" ) @@
  ( ACTION_ON     :> "plug_action_on" ) @@
  ( ACTION_TOGGLE :> "plug_action_toggle" )

bulb_actions ==
  ( ACTION_GET               :> "bulb_action_get" ) @@
  ( ACTION_OFF               :> "bulb_action_off" ) @@
  ( ACTION_ON                :> "bulb_action_on" ) @@
  ( ACTION_TOGGLE            :> "bulb_action_toggle" ) @@
  ( ACTION_BRIGHTNESS        :> "bulb_action_brightness" ) @@
  ( ACTION_COLOR_TEMPERATURE :> "bulb_action_color_temperature" )

fan_actions ==
  ( ACTION_GET       :> "fan_action_get" ) @@
  ( ACTION_OFF       :> "fan_action_off" ) @@
  ( ACTION_ON        :> "fan_action_on" ) @@
  ( ACTION_TOGGLE    :> "fan_action_toggle" ) @@
  ( ACTION_FAN_SPEED :> "fan_action_speed" )

\* the table that actions[device_type] indexes
HandlerTable(device_type) ==
  CASE actions[device_type] = "plug_action" -> plug_actions
    [] actions[device_type] = "bulb_action" -> bulb_actions
    [] actions[device_type] = "fan_action"  -> fan_actions

\* C27: every (device kind, action) pair that validate_parameters_for_device
\* accepts has a handler: the kind is a key of main's actions table and the
\* action is a key of that kind's handler table.
C27_AcceptedPairHasHandler ==
  ( /\ FnCalled("validate_parameters_for_device")
    /\ FnReturned(TRUE) )
  => /\ fn_call.args[2] \in DOMAIN actions
     /\ fn_call.args[3] \in DOMAIN HandlerTable(fn_call.args[2])

\* 'bright 50' on a bulb was accepted, and bulb_actions has the handler
C27_Witness ==
  /\ FnCalled("validate_parameters_for_device")
  /\ fn_call.args = <<"d", DEVICE_TYPE_BULB, ACTION_BRIGHTNESS, <<"5", "0">>>>
  /\ FnReturned(TRUE)
  /\ bulb_actions[fn_call.args[3]] = "bulb_action_brightness"

\* a step of main's launch loop in which get_client raises
GetClientFails ==
  /\ main_pc = "launch"
  /\ get_client_calls' = get_client_calls + 1
  /\ get_client(DeviceList[idx].device_api).raised

C28_Step ==
  /\ GetClientFails =>
       /\ main_pc' = "raised"
       /\ workers' = workers
       /\ idx' = idx
  /\ main_pc = "raised" =>
       /\ main_pc' = "raised"
       /\ idx' = idx
       /\ Len(workers') = Len(workers)
       /\ get_client_calls' = get_client_calls

\* main has left the loop at the device idx: the threads of the devices
\* before it exist, in the order of the list, none for that device and the
\* later ones; main joins none of them and none of them is stopped
C28_Prefix ==
  main_pc = "raised" =>
    /\ idx \in 1..Len(DeviceList)
    /\ Len(workers) = idx - 1
    /\ \A i \in 1..Len(workers) : workers[i].id = DeviceList[i].device_id
    /\ get_client_calls = idx
    /\ ~ ENABLED MainJoin
    /\ ~ ENABLED MainLaunch
    /\ \A i \in 1..Len(workers) : ~ Finished(workers[i]) => ENABLED WorkerStep(i)

\* C28: main obtains the clients inside the launch loop, one device at a
\* time: when get_client fails for the k-th device of a validated batch, the
\* threads of the devices 1..k-1 have been started and main does not join
\* them, and the devices k..N are never dispatched: the action reaches a
\* strict prefix of the batch.
C28_FailureLeavesStrictPrefix == [][C28_Step]_vars /\ []C28_Prefix

\* get_client failed for the second device: the thread of the first one was
\* started, has run to its end, and main has left without joining it
C28_Witness ==
  /\ main_pc = "raised"
  /\ Len(DeviceList) = 2
  /\ idx = 2
  /\ Len(workers) = 1
  /\ workers[1].pc = "done"

\* main is not running: it has returned, was left by an exception, or was
\* never called
MainEnded == main_pc \in {"returned", "raised", "none"}

Terminated ==
  /\ MainEnded
  /\ \A i \in 1..Len(workers) : Finished(workers[i])

AtMostThreeAttempts ==
  \A i \in 1..Len(workers) :
    /\ workers[i].attempt <= StopAfterAttempt
    /\ Len(workers[i].hist) <= StopAfterAttempt

\* the steps a thread can still take: an attempt and the recreation that
\* may follow it, for each dispatch attempt left
ThreadMeasure(w) ==
  CASE Finished(w)         -> 0
    [] w.pc = "run"        -> 2 * (StopAfterAttempt - w.attempt) + 2
    [] w.pc = "recreate"   -> 2 * (StopAfterAttempt - w.attempt) + 1

RECURSIVE ThreadsMeasure(_)
ThreadsMeasure(ws) ==
  IF ws = <<>> THEN 0 ELSE ThreadMeasure(Head(ws)) + ThreadsMeasure(Tail(ws))

\* the steps main can still take, each thread it has yet to start counted
\* with the steps of that thread and its join
MainMeasure ==
  CASE main_pc = "start"  -> MaxDevices * (2 * StopAfterAttempt + 2) + 1
    [] main_pc = "launch" -> (Len(DeviceList) - idx + 1) * (2 * StopAfterAttempt + 2)
                               + Len(workers)
    [] main_pc = "join"   -> Len(workers) - idx + 1
    [] OTHER              -> 0

Measure == MainMeasure + ThreadsMeasure(workers)

\* every step of the process uses up the measure, which is never negative
C29_Step == Measure' < Measure /\ Measure' >= 0

\* some step of the process can be taken (MainValidate has no other guard
\* than main being at its start)
CanStep ==
  \/ main_pc = "start"
  \/ ENABLED MainLaunch
  \/ ENABLED MainJoin
  \/ \E i \in 1..Len(workers) : ENABLED WorkerStep(i)

\* the process is never stuck before its end, and main at a join is never
\* stuck: the thread it waits for can run, or has ended, however it ended
C29_NotStuck ==
  /\ AtMostThreeAttempts
  /\ Terminated \/ CanStep
  /\ main_pc = "join" => ENABLED MainJoin \/ ENABLED WorkerStep(idx)
  /\ (main_pc = "join" /\ \A i \in 1..Len(workers) : Finished(workers[i]))
       => ENABLED MainJoin

\* C29: every vendor call and login returning or raising in finite time,
\* every invocation of main terminates: each thread makes at most 3 dispatch
\* attempts and then ends, and main, once it has started its threads, passes
\* the join of all of them and returns, also when some or all of them fail.
\* Stated as: every step decreases a natural-number measure, and a state
\* that is not the end of the process always has a step to take.
C29_MainTerminates == [][C29_Step]_vars /\ []C29_NotStuck

\* main has joined two threads that both ended with an exception, and has
\* returned
C29_Witness ==
  /\ main_pc = "returned"
  /\ Len(workers) = 2
  /\ \A i \in 1..Len(workers) : workers[i].pc = "failed"

\* C30: for every time now and every sunrise < solar_noon < sunset, now
\* equal to sunrise, solar_noon or sunset included, the circadian script
\* gives home_automation.main a color-temperature action value that is an
\* integer within [2700, 6500], a value the color-temperature validation
\* accepts.
C30_CircadianValueIsValid ==
  FnCalled("circadian_lighting") =>
    /\ ~ fn_ret[1].raised
    /\ validate_action_value(ACTION_VALUE_TYPE_COLOR_TEMPERATURE, fn_ret[1].value)
    /\ IsNumeric(fn_ret[1].value)
    /\ ToInt(fn_ret[1].value) \in
         WYZE_BULB_COLOR_TEMPERATURE_MIN..WYZE_BULB_COLOR_TEMPERATURE_MAX

====
